---------------------------- MODULE Spec2Model ----------------------------
(***************************************************************************)
(* Model of @chamie/re-call: a single-slot invocation cache.               *)
(*   src/src/index.ts  the cache, _reCall, the entry points, the wrappers  *)
(*                     and the inspection / eviction helpers               *)
(*   src/src/utils.ts  shallowEqual and parseRestParams                    *)
(*   src/src/types.ts  ReCallOptions                                       *)
(* JavaScript values are records tagged by t: primitives, references to    *)
(* array objects (identity = the reference), options objects.              *)
(***************************************************************************)
EXTENDS Naturals, Sequences, FiniteSets, TLC

VARIABLES
    cache,   \* the WeakMap of index.ts:11, as a set of [key, value] entries
    est,     \* history: per callable, the call that produced its record
    last,    \* history: the operation performed last, its inputs and outcome
    cprev,   \* comparator bench: first operand
    cnext,   \* comparator bench: second operand
    cout,    \* comparator bench: what shallowEqual / deepEqual returned
    promises, \* the promises async callables returned: settled or not
    owned    \* the callables the program still holds a reference to

vars == <<cache, est, last, cprev, cnext, cout, promises, owned>>

(***************************************************************************)
(* Bounds.                                                                 *)
(***************************************************************************)
\* Anonymous array objects (literals, rest-parameter arrays) of each content
\* that can be alive at once; one more than the records that can hold one.
NTemps == 3

(***************************************************************************)
(* JavaScript values.                                                      *)
(***************************************************************************)
Prim(s) == [t |-> "prim", k |-> s]
Ref(kind, i) == [t |-> "ref", k |-> kind, i |-> i]

Undefined == Prim("undefined")
Null == Prim("null")
NaN == Prim("NaN")
One == Prim("1")
Two == Prim("2")

\* The array objects of the heap.  "held" is an array the caller keeps in a
\* variable (const array = [1, 2]); the others are anonymous.
HeldRefs == {Ref("held", 1)}
FlatRefs == {Ref("flat", i) : i \in 1..NTemps}
EmptyRefs == {Ref("empty", i) : i \in 1..NTemps}
InnerRefs == {Ref("inner", i) : i \in 1..2}
NestRefs == {Ref("nest", i) : i \in 1..2}
NanRefs == {Ref("nan", i) : i \in 1..2}
OtherRefs == {Ref("one", 1), Ref("flat3", 1), Ref("nul", 1), Ref("und", 1)}

\* Arrays that reach the engine as argument lists.
ParamRefs == HeldRefs \cup FlatRefs \cup EmptyRefs
Refs == ParamRefs \cup InnerRefs \cup NestRefs \cup NanRefs \cup OtherRefs
Prims == {Undefined, Null, NaN, One, Two}
Values == Prims \cup Refs

\* The elements of an array object.
ContentOf(r) ==
    CASE r.k = "held" -> <<One, Two>>
      [] r.k = "flat" -> <<One, Two>>
      [] r.k = "empty" -> <<>>
      [] r.k = "inner" -> <<One, Two>>
      [] r.k = "nest" -> <<One, Ref("inner", r.i)>>
      [] r.k = "nan" -> <<NaN>>
      [] r.k = "one" -> <<One>>
      [] r.k = "flat3" -> <<One, Two, One>>
      [] r.k = "nul" -> <<One, Null>>
      [] r.k = "und" -> <<One, Undefined>>

\* typeof v === 'object' && v !== null
IsObject(v) == v.t = "ref"

\* a === b: identity of references, value equality of primitives, NaN
\* equal to nothing.
StrictEquals(a, b) == a = b /\ a # NaN

\* Object.is(a, b): as ===, but NaN is NaN.
ObjectIs(a, b) == a = b


(***************************************************************************)
(* Equality strategies.                                                    *)
(***************************************************************************)
\* Object.keys of an array object: its indices.
Keys(v) == 1..Len(ContentOf(v))

\* shallowEqual without the comparison of the elements.
ShallowByLengthOnly(prev, next) ==
    IF StrictEquals(prev, next) THEN TRUE
    ELSE IF ~IsObject(prev) \/ ~IsObject(next) THEN FALSE
    ELSE Cardinality(Keys(prev)) = Cardinality(Keys(next))

\* utils.ts shallowEqual.
shallowEqual(prev, next) ==
    IF StrictEquals(prev, next) THEN TRUE
    ELSE IF ~IsObject(prev) \/ ~IsObject(next) THEN FALSE
    ELSE LET prevKeys == Keys(prev)
             nextKeys == Keys(next)
         IN  IF Cardinality(prevKeys) # Cardinality(nextKeys) THEN FALSE
             ELSE \A key \in prevKeys :
                      /\ key \in nextKeys
                      /\ StrictEquals(ContentOf(prev)[key], ContentOf(next)[key])

\* fast-deep-equal, imported at index.ts:3: identical values, or two
\* arrays of one length whose elements are deep-equal, or two NaNs.
RECURSIVE deepEqual(_, _)
deepEqual(a, b) ==
    IF StrictEquals(a, b) THEN TRUE
    ELSE IF IsObject(a) /\ IsObject(b)
         THEN /\ Len(ContentOf(a)) = Len(ContentOf(b))
              /\ \A i \in 1..Len(ContentOf(a)) :
                     deepEqual(ContentOf(a)[i], ContentOf(b)[i])
         ELSE ~StrictEquals(a, a) /\ ~StrictEquals(b, b)

\* Compare with Object.is comparing element by element.
CompareElementwise(comparator, prev, next) ==
    IF comparator = "Object.is" THEN shallowEqual(prev, next)
    ELSE IF comparator = "shallowEqual" THEN shallowEqual(prev, next)
    ELSE deepEqual(prev, next)

\* comparator(prev, next) for the comparator functions the model passes.
Compare(comparator, prev, next) ==
    IF comparator = "Object.is" THEN ObjectIs(prev, next)
    ELSE IF comparator = "shallowEqual" THEN shallowEqual(prev, next)
    ELSE deepEqual(prev, next)

(***************************************************************************)
(* The cache: a WeakMap from callable to {result, params, thisArg}.        *)
(***************************************************************************)
Fns == {"f0", "f2"}

\* fn.length, the declared parameter count.
FnLength(fn) == IF fn = "f0" THEN 0 ELSE 2

NoRecord == [t |-> "undefined"]

Record(result, params, thisArg) ==
    [t |-> "record", result |-> result, params |-> params, thisArg |-> thisArg]

WeakMapHas(map, key) == \E e \in map : e.key = key

WeakMapGet(map, key) ==
    IF WeakMapHas(map, key)
    THEN (CHOOSE e \in map : e.key = key).value
    ELSE NoRecord

\* A set that keeps the entry it should replace.
WeakMapSetAdd(map, key, value) == map \cup {[key |-> key, value |-> value]}

\* A set that drops the entries of the other keys.
WeakMapSetAlone(map, key, value) == {[key |-> key, value |-> value]}

WeakMapSet(map, key, value) ==
    {e \in map : e.key # key} \cup {[key |-> key, value |-> value]}

WeakMapDelete(map, key) == {e \in map : e.key # key}

EmptyWeakMap == {}


(***************************************************************************)
(* Options and the bound context.                                          *)
(***************************************************************************)
\* Context values a caller supplies: nothing, two falsy primitives (0 and
\* the empty string), two objects.  globalThis is the ambient default.
GlobalThis == "globalThis"
NoContext == "undefined"
ThisInputs == {NoContext, "0", "''", "objA"}
ThisArgInputs == {NoContext, "objB"}
Absent == "absent"

Options(this, thisArg, comparator) ==
    [t |-> "options", this |-> this, thisArg |-> thisArg, comparator |-> comparator]

\* {}: an options object with no own property.
EmptyObject == Options(NoContext, NoContext, Absent)

\* The options objects callers pass.
OptionsInputs ==
    {Options(x, NoContext, c) : x \in {NoContext, "objA"}, c \in {Absent, "shallowEqual"}}
        \ {EmptyObject}

\* The options objects that only bind a context, in every combination.
ContextOptionsInputs ==
    {Options(x, y, Absent) : x \in ThisInputs, y \in ThisArgInputs}

\* index.ts defaultOptions.
defaultOptions == Options(NoContext, NoContext, "Object.is")

\* The own properties an object contributes to a spread: an options object
\* its own, an array only its indices (none of this, thisArg, comparator).
OwnOptions(v) == IF v.t = "options" THEN v ELSE EmptyObject

\* { ...base, ...over }
Spread(base, over) ==
    LET b == OwnOptions(base)
        o == OwnOptions(over)
    IN  Options(IF o.this # NoContext THEN o.this ELSE b.this,
                IF o.thisArg # NoContext THEN o.thisArg ELSE b.thisArg,
                IF o.comparator # Absent THEN o.comparator ELSE b.comparator)

\* JavaScript truthiness of a context value.
Truthy(c) == c \notin {NoContext, "0", "''"}

\* index.ts:22  thisContext || thisArg || globalThis
ResolveThis(thisContext, thisArg) ==
    IF Truthy(thisContext) THEN thisContext
    ELSE IF Truthy(thisArg) THEN thisArg
    ELSE GlobalThis

(***************************************************************************)
(* Allocation of anonymous arrays, and parseRestParams.                    *)
(***************************************************************************)
\* The array objects some record of the map still refers to.
Retained(map) == {e.value.params : e \in map}

\* A new array object of the given content: the first one no record
\* refers to.
Fresh(kind, map) ==
    LET free == {i \in 1..NTemps : Ref(kind, i) \notin Retained(map)}
    IN  Ref(kind, CHOOSE i \in free : \A j \in free : i <= j)

\* v ?? d
Nullish(v) == v = Undefined \/ v = Null

\* utils.ts parseRestParams; the [] literals are new array objects.
parseRestParams(fn, rest, map) ==
    LET paramsOrOptions == IF Len(rest) >= 1 THEN rest[1] ELSE Undefined
        maybeOptions == IF Len(rest) >= 2 THEN rest[2] ELSE Undefined
    IN  IF FnLength(fn) = 0
        THEN [params |-> Fresh("empty", map),
              options |-> IF Nullish(paramsOrOptions) THEN EmptyObject
                          ELSE paramsOrOptions]
        ELSE [params |-> IF Nullish(paramsOrOptions) THEN Fresh("empty", map)
                         ELSE paramsOrOptions,
              options |-> IF Nullish(maybeOptions) THEN EmptyObject
                          ELSE maybeOptions]

(***************************************************************************)
(* The engine.                                                             *)
(***************************************************************************)
\* What fn.apply does: return a value or throw.
Results == {"v1", "v2"}
Throws == "throws"
Outcomes == Results \cup {Throws}

\* readme 223-236: an async callable returns a promise, an object of its
\* own identity that is pending and settles later, by itself.
PromiseSeq == <<"p1", "p2">>
Promises == {PromiseSeq[i] : i \in DOMAIN PromiseSeq}

\* The promise a new invocation of an async callable returns: an object
\* no record holds.
NewPromise(map) ==
    LET free == {i \in DOMAIN PromiseSeq :
                    \A e \in map : e.value.result # PromiseSeq[i]}
    IN  PromiseSeq[CHOOSE i \in free : \A j \in free : i <= j]

\* The condition never met: every call invokes.
IsHitNever(cacheData, comparator, params, thisValue) == FALSE

\* The condition with the comparator of the options ignored.
IsHitByReference(cacheData, comparator, params, thisValue) ==
    /\ cacheData # NoRecord
    /\ ObjectIs(cacheData.params, params)
    /\ cacheData.thisArg = thisValue

\* index.ts:24, the condition of the early return.
IsHit(cacheData, comparator, params, thisValue) ==
    /\ cacheData # NoRecord
    /\ Compare(comparator, cacheData.params, params)
    /\ cacheData.thisArg = thisValue

\* A hit that stores the new arguments with the old result.
HitRestores(map, fn, cacheData, params, thisValue) ==
    WeakMapSet(map, fn, Record(cacheData.result, params, thisValue))

\* index.ts:25: the early return leaves the map alone.
OnHit(map, fn, cacheData, params, thisValue) == map

\* An invocation that drops the record when the callable throws.
InvokeEvictsOnThrow(map, fn, thisValue, params, outcome) ==
    IF outcome = Throws THEN WeakMapDelete(map, fn)
    ELSE WeakMapSet(map, fn, Record(outcome, params, thisValue))

\* An invocation that stores nothing while the returned promise is not
\* settled.
InvokeAwaits(map, fn, thisValue, params, outcome) ==
    IF outcome = Throws \/ outcome \in Promises THEN map
    ELSE WeakMapSet(map, fn, Record(outcome, params, thisValue))

\* index.ts:28-29: fn.apply, then cache.set unless fn.apply threw.
Invoke(map, fn, thisValue, params, outcome) ==
    IF outcome = Throws THEN map
    ELSE WeakMapSet(map, fn, Record(outcome, params, thisValue))

\* index.ts _reCall: the map afterwards and what the caller observes.
\* outcome is what fn.apply does if it is reached.
reCall(map, fn, params, options, outcome) ==
    LET merged == Spread(defaultOptions, options)
        thisValue == ResolveThis(merged.this, merged.thisArg)
        cacheData == WeakMapGet(map, fn)
    IN  IF IsHit(cacheData, merged.comparator, params, thisValue)
        THEN [map |-> OnHit(map, fn, cacheData, params, thisValue),
              invoked |-> FALSE, threw |-> FALSE, ret |-> cacheData.result,
              thisValue |-> thisValue, comparator |-> merged.comparator]
        ELSE [map |-> Invoke(map, fn, thisValue, params, outcome),
              invoked |-> TRUE, threw |-> outcome = Throws, ret |-> outcome,
              thisValue |-> thisValue, comparator |-> merged.comparator]


(***************************************************************************)
(* Entry points.  Each returns what reCall returns, with the argument list *)
(* and the options that reached the engine.                                *)
(***************************************************************************)
Engine(map, fn, params, options, outcome) ==
    [params |-> params, options |-> OwnOptions(options)]
        @@ reCall(map, fn, params, options, outcome)

\* index.ts:54-57
byRef(map, fn, rest, outcome) ==
    LET parsed == parseRestParams(fn, rest, map)
    IN  Engine(map, fn, parsed.params, parsed.options, outcome)

\* index.ts:79-82
shallow(map, fn, rest, outcome) ==
    LET parsed == parseRestParams(fn, rest, map)
    IN  Engine(map, fn, parsed.params,
               Spread(parsed.options, Options(NoContext, NoContext, "shallowEqual")),
               outcome)

\* index.ts:105-108
deep(map, fn, rest, outcome) ==
    LET parsed == parseRestParams(fn, rest, map)
    IN  Engine(map, fn, parsed.params,
               Spread(parsed.options, Options(NoContext, NoContext, "deepEqual")),
               outcome)

\* The rest-parameter array (...params) of a wrapper called with `args`.
RestArray(args, map) == Fresh(IF args = <<>> THEN "empty" ELSE "flat", map)

\* index.ts:113-117: wrap(fn, options)(...args); options may be undefined.
wrap(map, fn, options, args, outcome) ==
    Engine(map, fn, RestArray(args, map),
           IF Nullish(options) THEN EmptyObject ELSE options, outcome)

\* index.ts:120-121
wrapShallow(map, fn, args, outcome) ==
    Engine(map, fn, RestArray(args, map),
           Options(NoContext, NoContext, "shallowEqual"), outcome)

\* index.ts:123-124
wrapDeep(map, fn, args, outcome) ==
    Engine(map, fn, RestArray(args, map),
           Options(NoContext, NoContext, "deepEqual"), outcome)

\* A clearOne that deletes nothing.
ClearOneKeeps(map, fn) == map

\* index.ts:131-133
clearOne(map, fn) == WeakMapDelete(map, fn)

\* A peek that never finds anything.
PeekNothing(map, fn) == "undefined"

\* index.ts:135-138
peek(map, fn) ==
    LET cacheData == WeakMapGet(map, fn)
    IN  IF cacheData # NoRecord THEN cacheData.result ELSE "undefined"

\* index.ts:140
hasCache(map, fn) == WeakMapHas(map, fn)

\* A clearAll that has got no further than the first callable.
ClearAllPartly(map) == {e \in map : e.key # "f0"}

\* index.ts:142-144
clearAll(map) == EmptyWeakMap

(***************************************************************************)
(* A callable whose body calls the library while it runs (index.ts:28).    *)
(***************************************************************************)
\* What the body does before it returns or throws: nothing, clearOne(g),
\* clearAll(), or a call wrapShallow(g)(1, 2) in which g returns or throws.
Bodies ==
    {[op |-> "none"], [op |-> "clearAll"]}
        \cup {[op |-> "clearOne", fn |-> g] : g \in Fns}
        \cup {[op |-> "call", fn |-> g, outcome |-> o] : g \in Fns, o \in {"v2", Throws}}

\* The map the binding `cache` names when the body is done.
BodyEffect(map, body) ==
    CASE body.op = "none" -> map
      [] body.op = "clearOne" -> clearOne(map, body.fn)
      [] body.op = "clearAll" -> clearAll(map)
      [] body.op = "call" -> wrapShallow(map, body.fn, <<One, Two>>, body.outcome).map

\* A store into the WeakMap that was current at the lookup: after a
\* clearAll() in the body that one is no longer the cache.
InvokeIntoLookedUpMap(map, fn, thisValue, params, outcome, body) ==
    IF body.op = "clearAll" THEN BodyEffect(map, body)
    ELSE Invoke(BodyEffect(map, body), fn, thisValue, params, outcome)

\* index.ts:28-29: fn.apply runs the body; cache.set then reads the binding
\* `cache` and stores into the map it names now.
InvokeReentrant(map, fn, thisValue, params, outcome, body) ==
    Invoke(BodyEffect(map, body), fn, thisValue, params, outcome)

\* index.ts _reCall with such a callable: the lookup and the decision are
\* made on the map before the body runs.
reCallReentrant(map, fn, params, options, outcome, body) ==
    LET merged == Spread(defaultOptions, options)
        thisValue == ResolveThis(merged.this, merged.thisArg)
        cacheData == WeakMapGet(map, fn)
    IN  IF IsHit(cacheData, merged.comparator, params, thisValue)
        THEN reCall(map, fn, params, options, outcome)
        ELSE [map |-> InvokeReentrant(map, fn, thisValue, params, outcome, body),
              invoked |-> TRUE, threw |-> outcome = Throws, ret |-> outcome,
              thisValue |-> thisValue, comparator |-> merged.comparator]

\* index.ts:79-82 with such a callable.
shallowReentrant(map, fn, rest, outcome, body) ==
    LET parsed == parseRestParams(fn, rest, map)
        options == Spread(parsed.options, Options(NoContext, NoContext, "shallowEqual"))
    IN  [params |-> parsed.params, options |-> OwnOptions(options)]
            @@ reCallReentrant(map, fn, parsed.params, options, outcome, body)

(***************************************************************************)
(* The callers: what they pass.                                            *)
(***************************************************************************)
\* An argument list a caller passes: the array it keeps, or a new [1, 2].
ArrayInputs(map) == HeldRefs \cup {Fresh("flat", map)}

\* The rest arguments of byRef / shallow / deep after fn: (fn) alone for
\* the zero-parameter callable; (fn), (fn, params), (fn, params, options)
\* for the other, with options drawn from `opts`.
RestInputs(fn, map, arrays, opts) ==
    IF FnLength(fn) = 0
    THEN {<<>>}
    ELSE {<<>>} \cup {<<a>> : a \in arrays}
             \cup {<<a, o>> : a \in arrays, o \in opts}

\* The arguments a wrapper is called with.
ArgsInputs(fn) == IF FnLength(fn) = 0 THEN {<<>>} ELSE {<<>>, <<One, Two>>}

\* The options a wrapper is made with.
WrapInputs(fn, opts) == IF FnLength(fn) = 0 THEN {Undefined} ELSE opts \cup {Undefined}

\* Every shape of the rest arguments after fn: none, options alone, an
\* argument list alone, an argument list and options.
ShapeInputs(arrays, opts) ==
    {<<>>} \cup {<<o>> : o \in opts} \cup {<<a>> : a \in arrays}
           \cup {<<a, o>> : a \in arrays, o \in opts}

\* What the callable does when invoked: f0 returns "v1" or throws, f2
\* returns either result or throws.
OutcomesOf(fn) == IF FnLength(fn) = 0 THEN {"v1", Throws} ELSE Outcomes

(***************************************************************************)
(* State machine.                                                          *)
(***************************************************************************)
NoEst == [t |-> "none"]

\* History of the records: a successful invocation of fn establishes
\* fn's record, an eviction ends it.  `same` tells that every call of fn
\* since then passed arguments and a context that the establishing
\* comparator takes for the established ones.
EstAfter(e, l) ==
    IF l.op = "call"
    THEN IF l.invoked /\ ~l.threw
         THEN [e EXCEPT ![l.fn] =
                  [t |-> "est", entry |-> l.entry, comparator |-> l.comparator,
                   params |-> l.params, thisValue |-> l.thisValue,
                   result |-> l.ret, same |-> TRUE]]
         ELSE IF e[l.fn] # NoEst
              THEN [e EXCEPT ![l.fn].same =
                       /\ @
                       /\ Compare(e[l.fn].comparator, e[l.fn].params, l.params)
                       /\ e[l.fn].thisValue = l.thisValue]
              ELSE e
    ELSE IF l.op = "clearOne" THEN [e EXCEPT ![l.fn] = NoEst]
    ELSE IF l.op = "clearAll" THEN [fn \in DOMAIN e |-> NoEst]
    ELSE e

NoHistory == UNCHANGED <<est, promises, owned>>

History == est' = EstAfter(est, last') /\ UNCHANGED <<promises, owned>>

NoBench == [fn |-> "none"]

Init ==
    /\ cache = EmptyWeakMap
    /\ est = [fn \in Fns |-> NoEst]
    /\ last = [op |-> "init"]
    /\ cprev = Undefined
    /\ cnext = Undefined
    /\ cout = NoBench
    /\ promises = [p \in Promises |-> "none"]
    /\ owned = Fns

BenchUnchanged == UNCHANGED <<cprev, cnext, cout>>

\* What a call through `entry` whose engine result is r was given and did.
CallRecord(entry, fn, r) ==
    [op |-> "call", entry |-> entry, fn |-> fn, params |-> r.params,
     this |-> r.options.this, thisArg |-> r.options.thisArg,
     comparator |-> r.comparator, thisValue |-> r.thisValue,
     invoked |-> r.invoked, threw |-> r.threw, ret |-> r.ret]

\* The step of a call through `entry` whose engine result is r.
Called(entry, fn, r) ==
    /\ cache' = r.map
    /\ last' = CallRecord(entry, fn, r)
    /\ BenchUnchanged

\* The same step of a direct entry point, with the rest arguments it was
\* given and what parseRestParams made of them.
CalledWith(entry, fn, rest, r) ==
    /\ cache' = r.map
    /\ last' = [rest |-> rest, parsed |-> parseRestParams(fn, rest, cache)]
                   @@ CallRecord(entry, fn, r)
    /\ BenchUnchanged

ByRef(fn, rest, outcome) == Called("byRef", fn, byRef(cache, fn, rest, outcome))

Shallow(fn, rest, outcome) == Called("shallow", fn, shallow(cache, fn, rest, outcome))

Deep(fn, rest, outcome) == Called("deep", fn, deep(cache, fn, rest, outcome))

Wrap(fn, options, args, outcome) ==
    Called("wrap", fn, wrap(cache, fn, options, args, outcome))

WrapShallow(fn, args, outcome) ==
    Called("wrapShallow", fn, wrapShallow(cache, fn, args, outcome))

WrapDeep(fn, args, outcome) ==
    Called("wrapDeep", fn, wrapDeep(cache, fn, args, outcome))

ClearOne(fn) ==
    /\ cache' = clearOne(cache, fn)
    /\ last' = [op |-> "clearOne", fn |-> fn, had |-> hasCache(cache, fn)]
    /\ BenchUnchanged

ClearAll ==
    /\ cache' = clearAll(cache)
    /\ last' = [op |-> "clearAll", had |-> {fn \in Fns : hasCache(cache, fn)}]
    /\ BenchUnchanged

Peek(fn) ==
    /\ last' = [op |-> "peek", fn |-> fn, ret |-> peek(cache, fn)]
    /\ UNCHANGED cache
    /\ BenchUnchanged

HasCache(fn) ==
    /\ last' = [op |-> "hasCache", fn |-> fn, ret |-> hasCache(cache, fn)]
    /\ UNCHANGED cache
    /\ BenchUnchanged

\* Two callables, every entry point, contexts globalThis and objA.
Next ==
    \/ \E fn \in Fns, outcome \in Outcomes :
           \E rest \in RestInputs(fn, cache, ArrayInputs(cache), OptionsInputs) :
               outcome \in OutcomesOf(fn) /\ ByRef(fn, rest, outcome) /\ NoHistory
    \/ \E fn \in Fns, outcome \in Outcomes :
           \E rest \in RestInputs(fn, cache, ArrayInputs(cache), OptionsInputs) :
               outcome \in OutcomesOf(fn) /\ Shallow(fn, rest, outcome) /\ NoHistory
    \/ \E fn \in Fns, outcome \in Outcomes :
           \E rest \in RestInputs(fn, cache, ArrayInputs(cache), OptionsInputs) :
               outcome \in OutcomesOf(fn) /\ Deep(fn, rest, outcome) /\ NoHistory
    \/ \E fn \in Fns, outcome \in Outcomes :
           \E args \in ArgsInputs(fn), options \in WrapInputs(fn, OptionsInputs) :
               outcome \in OutcomesOf(fn) /\ Wrap(fn, options, args, outcome) /\ NoHistory
    \/ \E fn \in Fns, outcome \in Outcomes : \E args \in ArgsInputs(fn) :
           outcome \in OutcomesOf(fn) /\ WrapShallow(fn, args, outcome) /\ NoHistory
    \/ \E fn \in Fns, outcome \in Outcomes : \E args \in ArgsInputs(fn) :
           outcome \in OutcomesOf(fn) /\ WrapDeep(fn, args, outcome) /\ NoHistory
    \/ \E fn \in Fns : ClearOne(fn) /\ NoHistory
    \/ ClearAll /\ NoHistory
    \/ \E fn \in Fns : Peek(fn) /\ NoHistory
    \/ \E fn \in Fns : HasCache(fn) /\ NoHistory

Spec == Init /\ [][Next]_vars

\* The callable with parameters, every entry point, with the history of
\* its record.
HistoryFns == {"f2"}

NextHistory ==
    \/ \E fn \in HistoryFns, outcome \in Outcomes :
           \E rest \in RestInputs(fn, cache, ArrayInputs(cache), OptionsInputs) :
               outcome \in OutcomesOf(fn) /\ ByRef(fn, rest, outcome) /\ History
    \/ \E fn \in HistoryFns, outcome \in Outcomes :
           \E rest \in RestInputs(fn, cache, ArrayInputs(cache), OptionsInputs) :
               outcome \in OutcomesOf(fn) /\ Shallow(fn, rest, outcome) /\ History
    \/ \E fn \in HistoryFns, outcome \in Outcomes :
           \E rest \in RestInputs(fn, cache, ArrayInputs(cache), OptionsInputs) :
               outcome \in OutcomesOf(fn) /\ Deep(fn, rest, outcome) /\ History
    \/ \E fn \in HistoryFns, outcome \in Outcomes :
           \E args \in ArgsInputs(fn), options \in WrapInputs(fn, OptionsInputs) :
               outcome \in OutcomesOf(fn) /\ Wrap(fn, options, args, outcome) /\ History
    \/ \E fn \in HistoryFns, outcome \in Outcomes : \E args \in ArgsInputs(fn) :
           outcome \in OutcomesOf(fn) /\ WrapShallow(fn, args, outcome) /\ History
    \/ \E fn \in HistoryFns, outcome \in Outcomes : \E args \in ArgsInputs(fn) :
           outcome \in OutcomesOf(fn) /\ WrapDeep(fn, args, outcome) /\ History
    \/ \E fn \in HistoryFns : ClearOne(fn) /\ History
    \/ ClearAll /\ History
    \/ \E fn \in HistoryFns : Peek(fn) /\ History

SpecHistory == Init /\ [][NextHistory]_vars

\* One callable with parameters, always the same argument list, every
\* combination of supplied contexts.
NextContext ==
    \/ \E outcome \in Outcomes :
           \E rest \in RestInputs("f2", cache, HeldRefs, ContextOptionsInputs) :
               ByRef("f2", rest, outcome) /\ NoHistory
    \/ \E outcome \in Outcomes :
           \E rest \in RestInputs("f2", cache, HeldRefs, ContextOptionsInputs) :
               Shallow("f2", rest, outcome) /\ NoHistory
    \/ \E outcome \in Outcomes, options \in ContextOptionsInputs :
           Wrap("f2", options, <<One, Two>>, outcome) /\ NoHistory
    \/ ClearOne("f2") /\ NoHistory

SpecContext == Init /\ [][NextContext]_vars

(***************************************************************************)
(* An async callable: every invocation returns a new pending promise (or   *)
(* throws before it has one); the promise settles some time later.         *)
(***************************************************************************)
\* fn.apply of the step returned the promise `outcome`, pending.
Returned(outcome) ==
    /\ promises' = IF last'.invoked /\ ~last'.threw
                   THEN [promises EXCEPT ![outcome] = "pending"]
                   ELSE promises
    /\ UNCHANGED <<est, owned>>

\* A pending promise is fulfilled or rejected; the library is not involved.
Settle(p, how) ==
    /\ promises[p] = "pending"
    /\ promises' = [promises EXCEPT ![p] = how]
    /\ last' = [op |-> "settle", promise |-> p, how |-> how]
    /\ UNCHANGED <<cache, est, owned>>
    /\ BenchUnchanged

AsyncOutcomes(map) == {NewPromise(map), Throws}

NextAsync ==
    \/ \E outcome \in AsyncOutcomes(cache) :
           \E rest \in RestInputs("f2", cache, ArrayInputs(cache), {}) :
               ByRef("f2", rest, outcome) /\ Returned(outcome)
    \/ \E outcome \in AsyncOutcomes(cache) :
           \E rest \in RestInputs("f2", cache, ArrayInputs(cache), {}) :
               Shallow("f2", rest, outcome) /\ Returned(outcome)
    \/ \E outcome \in AsyncOutcomes(cache), args \in ArgsInputs("f2") :
           WrapShallow("f2", args, outcome) /\ Returned(outcome)
    \/ \E p \in Promises, how \in {"fulfilled", "rejected"} : Settle(p, how)
    \/ ClearOne("f2") /\ NoHistory
    \/ Peek("f2") /\ NoHistory

SpecAsync == Init /\ [][NextAsync]_vars

(***************************************************************************)
(* Callables that may return undefined (a function without a return        *)
(* value), inspected with peek and hasCache.                               *)
(***************************************************************************)
VoidOutcomes == {"v1", "undefined"}

NextVoid ==
    \/ \E fn \in Fns, outcome \in VoidOutcomes :
           \E rest \in RestInputs(fn, cache, HeldRefs, {}) :
               Shallow(fn, rest, outcome) /\ NoHistory
    \/ \E fn \in Fns, outcome \in VoidOutcomes : \E args \in ArgsInputs(fn) :
           WrapShallow(fn, args, outcome) /\ NoHistory
    \/ \E fn \in Fns : ClearOne(fn) /\ NoHistory
    \/ ClearAll /\ NoHistory
    \/ \E fn \in Fns : Peek(fn) /\ NoHistory
    \/ \E fn \in Fns : HasCache(fn) /\ NoHistory

SpecVoid == Init /\ [][NextVoid]_vars

(***************************************************************************)
(* Callables that re-enter the library: the whole call, the body's own     *)
(* operation included, is one step of the single-threaded program.         *)
(***************************************************************************)
ShallowReentrant(fn, rest, outcome, body) ==
    LET r == shallowReentrant(cache, fn, rest, outcome, body)
    IN  /\ cache' = r.map
        /\ last' = [body |-> body] @@ CallRecord("shallow", fn, r)
        /\ BenchUnchanged

NextReentrant ==
    \/ \E fn \in Fns, outcome \in Outcomes, body \in Bodies :
           \E rest \in RestInputs(fn, cache, HeldRefs, {}) :
               ShallowReentrant(fn, rest, outcome, body) /\ NoHistory
    \/ \E fn \in Fns : ClearOne(fn) /\ NoHistory

SpecReentrant == Init /\ [][NextReentrant]_vars

(***************************************************************************)
(* Reclamation.  The program drops its references to callables; the        *)
(* runtime removes the entries of a WeakMap whose keys nothing else keeps. *)
(* A callable may return a callable (itself or the other), so a record can *)
(* refer to a key.  No clearOne, no clearAll.                              *)
(***************************************************************************)
\* The keys a map of fully strong references would keep by itself.
RootsWithKeys(map, held) == held \cup {e.key : e \in map}

\* index.ts:11, 143: new WeakMap().  The map is no root for its keys: the
\* roots are the references of the program.
Roots(map, held) == held

\* The callables a record of `from` leads to: a WeakMap keeps the value of
\* an entry for as long as its key is kept.
Via(map, from) ==
    from \cup {e.value.result : e \in {x \in map : x.key \in from
                                                  /\ x.value.result \in Fns}}

\* The callables reachable from the references in `held`.
ReachableFrom(map, held) == Via(map, Via(map, held))

\* The callables the runtime keeps.
Alive(map, held) == ReachableFrom(map, Roots(map, held))

\* What a callable returns: a plain value or a callable that can still be
\* reached.
ReclaimOutcomes(map, held) == {"v1"} \cup ReachableFrom(map, held)

\* The program releases its reference to fn.
Drop(fn) ==
    /\ fn \in owned
    /\ owned' = owned \ {fn}
    /\ last' = [op |-> "drop", fn |-> fn]
    /\ UNCHANGED <<cache, est, promises>>
    /\ BenchUnchanged

\* readme 259-263: the program makes a new callable; fn names it once the
\* callable fn named before is gone, its entry included.
Make(fn) ==
    /\ fn \notin Alive(cache, owned)
    /\ ~hasCache(cache, fn)
    /\ owned' = owned \cup {fn}
    /\ last' = [op |-> "make", fn |-> fn]
    /\ UNCHANGED <<cache, est, promises>>
    /\ BenchUnchanged

\* The collector removes the entry of a key that is not kept.
Collect(fn) ==
    /\ fn \notin Alive(cache, owned)
    /\ hasCache(cache, fn)
    /\ cache' = WeakMapDelete(cache, fn)
    /\ last' = [op |-> "collect", fn |-> fn, result |-> peek(cache, fn)]
    /\ UNCHANGED <<est, promises, owned>>
    /\ BenchUnchanged

\* The program can only name a callable it can still reach.
NextReclaim ==
    \/ \E fn \in Fns, outcome \in ReclaimOutcomes(cache, owned) :
           \E rest \in RestInputs(fn, cache, HeldRefs, {}) :
               /\ fn \in ReachableFrom(cache, owned)
               /\ Shallow(fn, rest, outcome)
               /\ NoHistory
    \/ \E fn \in Fns : /\ fn \in ReachableFrom(cache, owned)
                       /\ Peek(fn)
                       /\ NoHistory
    \/ \E fn \in Fns : Drop(fn)
    \/ \E fn \in Fns : Make(fn)
    \/ \E fn \in Fns : Collect(fn)

\* The collector runs: an entry that stays collectable is collected.
SpecReclaim ==
    Init /\ [][NextReclaim]_vars /\ \A fn \in Fns : WF_vars(Collect(fn))

(***************************************************************************)
(* The zero-parameter callable called in every shape, the shapes with an   *)
(* argument list included.                                                 *)
(***************************************************************************)
NextShape ==
    \/ \E outcome \in Outcomes :
           \E rest \in ShapeInputs(ArrayInputs(cache), OptionsInputs) :
               /\ CalledWith("byRef", "f0", rest, byRef(cache, "f0", rest, outcome))
               /\ NoHistory
    \/ \E outcome \in Outcomes :
           \E rest \in ShapeInputs(ArrayInputs(cache), OptionsInputs) :
               /\ CalledWith("shallow", "f0", rest, shallow(cache, "f0", rest, outcome))
               /\ NoHistory
    \/ \E outcome \in Outcomes :
           \E rest \in ShapeInputs(ArrayInputs(cache), OptionsInputs) :
               /\ CalledWith("deep", "f0", rest, deep(cache, "f0", rest, outcome))
               /\ NoHistory
    \/ ClearOne("f0") /\ NoHistory

SpecShape == Init /\ [][NextShape]_vars

(***************************************************************************)
(* The comparators on their own: applied to every pair of values.          *)
(***************************************************************************)
InitBench ==
    /\ cache = EmptyWeakMap
    /\ est = [fn \in Fns |-> NoEst]
    /\ last = [op |-> "init"]
    /\ cprev \in Values
    /\ cnext \in Values
    /\ cout = NoBench
    /\ promises = [p \in Promises |-> "none"]
    /\ owned = Fns

BenchShallowEqual ==
    /\ cout' = [fn |-> "shallowEqual", out |-> shallowEqual(cprev, cnext)]
    /\ UNCHANGED <<cache, est, last, cprev, cnext, promises, owned>>

BenchDeepEqual ==
    /\ cout' = [fn |-> "deepEqual", out |-> deepEqual(cprev, cnext)]
    /\ UNCHANGED <<cache, est, last, cprev, cnext, promises, owned>>

NextBench == BenchShallowEqual \/ BenchDeepEqual

SpecBench == InitBench /\ [][NextBench]_vars

(***************************************************************************)
(* Properties.  `last` is the operation a step performed; in an action     *)
(* formula the unprimed cache is the cache that operation found.           *)
(***************************************************************************)
\* C1: a call that finds a record for fn whose stored arguments the active
\* comparator takes for the new ones, and whose stored context is the
\* resolved one, does not invoke fn and returns the stored result.
C1_HitReturnsStoredResult ==
    [][LET rec == WeakMapGet(cache, last'.fn)
       IN  (/\ last'.op = "call"
            /\ rec # NoRecord
            /\ Compare(last'.comparator, rec.params, last'.params)
            /\ rec.thisArg = last'.thisValue)
           => (~last'.invoked /\ ~last'.threw /\ last'.ret = rec.result)]_vars

\* A hit through a wrapper: the stored argument list is another object.
C1_Witness ==
    /\ last.op = "call"
    /\ last.entry \in {"wrapShallow", "wrapDeep"}
    /\ ~last.invoked
    /\ WeakMapGet(cache, last.fn).result = last.ret
    /\ WeakMapGet(cache, last.fn).params # last.params

\* C2 as stated: once a successful call with comparator C established the
\* record of fn, every later call through any entry point with the same
\* context and arguments that C takes for the established ones is a hit
\* returning the established result, as long as no call of fn differed in
\* arguments or context and no eviction happened.
C2_AnyEntryPointHits ==
    [][LET e == est[last'.fn]
       IN  (/\ last'.op = "call"
            /\ e # NoEst
            /\ e.same
            /\ Compare(e.comparator, e.params, last'.params)
            /\ e.thisValue = last'.thisValue)
           => (~last'.invoked /\ last'.ret = e.result)]_vars

\* C2 amended: the later call has to use the comparator C itself; then it
\* is a hit for as long as fn was not invoked successfully again and no
\* eviction happened (failed calls in between do not matter).
C2_SameComparatorHits ==
    [][LET e == est[last'.fn]
       IN  (/\ last'.op = "call"
            /\ e # NoEst
            /\ last'.comparator = e.comparator
            /\ Compare(e.comparator, e.params, last'.params)
            /\ e.thisValue = last'.thisValue)
           => (~last'.invoked /\ ~last'.threw /\ last'.ret = e.result)]_vars

\* A hit through another entry point than the establishing one, with
\* another argument list object, after a call that differed.
C2_Witness ==
    /\ last.op = "call"
    /\ ~last.invoked
    /\ est[last.fn] # NoEst
    /\ est[last.fn].comparator = last.comparator
    /\ est[last.fn].entry # last.entry
    /\ est[last.fn].params # last.params
    /\ ~est[last.fn].same

\* C3: a call in which the callable throws propagates the failure and
\* leaves the cache as it was: no record created, replaced or removed, and
\* peek answers as before.
C3_FailureLeavesCache ==
    [][(last'.op = "call" /\ last'.threw)
       => (/\ last'.ret = Throws
           /\ cache' = cache
           /\ \A fn \in Fns : /\ peek(cache', fn) = peek(cache, fn)
                              /\ hasCache(cache', fn) = hasCache(cache, fn))]_vars

\* A failed call with other arguments than the surviving record's.
C3_Witness ==
    /\ last.op = "call"
    /\ last.threw
    /\ hasCache(cache, last.fn)
    /\ ~deepEqual(WeakMapGet(cache, last.fn).params, last.params)

AtMostOneRecord ==
    \A fn \in Fns : Cardinality({e \in cache : e.key = fn}) <= 1

\* C4: the cache never holds two records of one callable, and after a
\* successful miss on fn the record of fn is exactly the result, the
\* arguments and the context of that call; peek returns that result.
C4_SingleRecordReplaced ==
    [][/\ AtMostOneRecord'
       /\ (last'.op = "call" /\ last'.invoked /\ ~last'.threw)
          => (/\ {e.value : e \in {x \in cache' : x.key = last'.fn}}
                   = {Record(last'.ret, last'.params, last'.thisValue)}
              /\ peek(cache', last'.fn) = last'.ret)]_vars

\* A successful miss while both callables have a record.
C4_Witness ==
    /\ last.op = "call"
    /\ last.invoked
    /\ ~last.threw
    /\ \A fn \in Fns : hasCache(cache, fn)
    /\ peek(cache, last.fn) = last.ret

\* C5 as stated: two calls in a row of one callable with supplied
\* contexts X # Y (and the same arguments): the second one is a miss.
C5_DistinctContextsMiss ==
    [][(/\ last.op = "call"
        /\ ~last.threw
        /\ last'.op = "call"
        /\ last'.fn = last.fn
        /\ last.this # NoContext
        /\ last'.this # NoContext
        /\ last.thisArg = NoContext
        /\ last'.thisArg = NoContext
        /\ last'.this # last.this)
       => last'.invoked]_vars

\* The resolution C6 states: the primary context if supplied, else the
\* alias if supplied, else the default.
ClaimedContext(this, thisArg) ==
    IF this # NoContext THEN this
    ELSE IF thisArg # NoContext THEN thisArg
    ELSE GlobalThis

\* C6 as stated: every call binds the context ClaimedContext resolves.
C6_ContextResolution ==
    last.op = "call" => last.thisValue = ClaimedContext(last.this, last.thisArg)

\* C7 as stated: after every successful call, hit or miss, the record
\* holds the arguments and the context of that call.
C7_ReplacedOnEveryCall ==
    (last.op = "call" /\ ~last.threw)
    => (/\ WeakMapGet(cache, last.fn).params = last.params
        /\ WeakMapGet(cache, last.fn).thisArg = last.thisValue)

\* C7 amended: a successful miss stores the arguments and context of that
\* call; a hit leaves the record, and the whole cache, as it was.
C7_ReplacedOnMissOnly ==
    [][(last'.op = "call" /\ ~last'.threw)
       => IF last'.invoked
          THEN /\ WeakMapGet(cache', last'.fn).params = last'.params
               /\ WeakMapGet(cache', last'.fn).thisArg = last'.thisValue
          ELSE /\ cache' = cache
               /\ WeakMapGet(cache', last'.fn) = WeakMapGet(cache, last'.fn)]_vars

\* A hit of shallow() or deep() that keeps the older argument list.
C7_Witness ==
    /\ last.op = "call"
    /\ last.entry \in {"shallow", "deep"}
    /\ ~last.invoked
    /\ WeakMapGet(cache, last.fn).params # last.params
    /\ WeakMapGet(cache, last.fn).thisArg = last.thisValue

\* C8 as stated: byRef with the default comparator on a zero-parameter
\* callable that has a record with the same context is a hit.
C8_ZeroArgByRefHits ==
    [][(/\ last'.op = "call"
        /\ last'.entry = "byRef"
        /\ FnLength(last'.fn) = 0
        /\ last'.comparator = "Object.is"
        /\ hasCache(cache, last'.fn)
        /\ WeakMapGet(cache, last'.fn).thisArg = last'.thisValue)
       => ~last'.invoked]_vars

\* C9: byRef with the default comparator on a callable with parameters
\* that has a record with the same context: a hit exactly when the
\* argument list passed is the stored list object.
C9_ByRefHitIffSameObject ==
    [][LET rec == WeakMapGet(cache, last'.fn)
       IN  (/\ last'.op = "call"
            /\ last'.entry = "byRef"
            /\ FnLength(last'.fn) > 0
            /\ last'.comparator = "Object.is"
            /\ rec # NoRecord
            /\ rec.thisArg = last'.thisValue)
           => (~last'.invoked <=> rec.params = last'.params)]_vars

\* byRef hit on the array the caller kept.
C9_Witness ==
    /\ last.op = "call"
    /\ last.entry = "byRef"
    /\ last.comparator = "Object.is"
    /\ FnLength(last.fn) > 0
    /\ ~last.invoked
    /\ last.params \in HeldRefs

\* The elements of two arrays are the same values, position by position.
SameElements(a, b) ==
    /\ Len(ContentOf(a)) = Len(ContentOf(b))
    /\ \A i \in 1..Len(ContentOf(a)) : ContentOf(a)[i] = ContentOf(b)[i]

\* C10 as stated: shallowEqual is true exactly for two composites of one
\* length with identical elements, and false when either side is null or
\* not composite.
C10_ShallowIffIdenticalElements ==
    cout.fn = "shallowEqual"
    => (cout.out <=> (IsObject(cprev) /\ IsObject(cnext) /\ SameElements(cprev, cnext)))

\* C10 amended: true exactly when the two values are strictly equal, or
\* both are composites of one length whose elements are strictly equal
\* position by position; so new [1, 2] lists are equal and new
\* [1, [1, 2]] lists are not.
C10_ShallowIffStrictlyEqual ==
    cout.fn = "shallowEqual"
    => /\ cout.out <=>
              \/ StrictEquals(cprev, cnext)
              \/ /\ IsObject(cprev)
                 /\ IsObject(cnext)
                 /\ Len(ContentOf(cprev)) = Len(ContentOf(cnext))
                 /\ \A i \in 1..Len(ContentOf(cprev)) :
                        StrictEquals(ContentOf(cprev)[i], ContentOf(cnext)[i])
       /\ (cprev \in FlatRefs /\ cnext \in FlatRefs) => cout.out
       /\ (cprev \in NestRefs /\ cnext \in NestRefs /\ cprev # cnext) => ~cout.out
       /\ (~IsObject(cprev) \/ ~IsObject(cnext))
              => (cout.out <=> StrictEquals(cprev, cnext))

\* shallowEqual applied to two distinct [1, 2] arrays.
C10_Witness ==
    /\ cout.fn = "shallowEqual"
    /\ cprev \in FlatRefs
    /\ cnext \in FlatRefs
    /\ cprev # cnext
    /\ cout.out

\* C11: clearOne(fn), whatever the cache held, leaves no record of fn:
\* hasCache(fn) is false and peek(fn) is undefined; when fn had no record
\* it changes nothing; and a call of fn that finds no record invokes fn.
C11_ClearOneEvicts ==
    [][/\ last'.op = "clearOne"
          => /\ ~hasCache(cache', last'.fn)
             /\ peek(cache', last'.fn) = "undefined"
             /\ ~hasCache(cache, last'.fn) => cache' = cache
       /\ (last'.op = "call" /\ ~hasCache(cache, last'.fn)) => last'.invoked
       /\ (last.op = "clearOne" /\ last'.op = "call" /\ last'.fn = last.fn)
          => last'.invoked]_vars

\* clearOne removed the record of one callable and kept the other's.
C11_Witness ==
    /\ last.op = "clearOne"
    /\ last.had
    /\ ~hasCache(cache, last.fn)
    /\ \E g \in Fns \ {last.fn} : hasCache(cache, g)

\* C12: clearAll() is one step that empties the mapping: after it no
\* callable has a record, and of the callables that had one before the
\* step none is still present while another is gone.
C12_ClearAllAtOnce ==
    [][last'.op = "clearAll"
       => /\ cache' = EmptyWeakMap
          /\ last'.had = {g \in Fns : hasCache(cache, g)}
          /\ \A g \in Fns : ~hasCache(cache', g) /\ peek(cache', g) = "undefined"
          /\ \A g, h \in last'.had : hasCache(cache', g) = hasCache(cache', h)]_vars

\* clearAll found a record of every callable and left none.
C12_Witness ==
    /\ last.op = "clearAll"
    /\ last.had = Fns
    /\ \A g \in Fns : ~hasCache(cache, g)

\* C13 as stated: a miss stores the promise the callable returned, still
\* pending, and a call with equal arguments and context made while the
\* stored promise is pending invokes the callable again.
C13_PendingCallsEachInvoke ==
    [][LET rec == WeakMapGet(cache, last'.fn)
       IN  /\ (last'.op = "call" /\ last'.invoked /\ ~last'.threw)
              => (/\ peek(cache', last'.fn) = last'.ret
                  /\ promises'[last'.ret] = "pending")
           /\ (/\ last'.op = "call"
               /\ rec # NoRecord
               /\ promises[rec.result] = "pending"
               /\ Compare(last'.comparator, rec.params, last'.params)
               /\ rec.thisArg = last'.thisValue)
              => last'.invoked]_vars

\* C13 amended: a miss stores the promise the callable returned, still
\* pending; a call with equal arguments and context made while the stored
\* promise is pending is a hit that returns that same promise and does
\* not invoke the callable; settling the promise does not touch the cache.
C13_PendingPromiseShared ==
    [][LET rec == WeakMapGet(cache, last'.fn)
       IN  /\ (last'.op = "call" /\ last'.invoked /\ ~last'.threw)
              => (/\ peek(cache', last'.fn) = last'.ret
                  /\ promises'[last'.ret] = "pending")
           /\ (/\ last'.op = "call"
               /\ rec # NoRecord
               /\ promises[rec.result] = "pending"
               /\ Compare(last'.comparator, rec.params, last'.params)
               /\ rec.thisArg = last'.thisValue)
              => (/\ ~last'.invoked
                  /\ last'.ret = rec.result
                  /\ promises' = promises
                  /\ cache' = cache)
           /\ last'.op = "settle" => cache' = cache]_vars

\* A hit with a new, equal argument list returned the promise that is
\* still pending.
C13_Witness ==
    /\ last.op = "call"
    /\ ~last.invoked
    /\ last.ret \in Promises
    /\ promises[last.ret] = "pending"
    /\ WeakMapGet(cache, last.fn).params # last.params

\* C14: no record holds the outcome of a failed call, neither a thrown
\* failure nor a promise that rejected, and no call answered from the
\* cache returns one.
C14_OnlySuccessfulOutcomesCached ==
    /\ \A e \in cache :
           /\ e.value.result # Throws
           /\ e.value.result \in Promises => promises[e.value.result] # "rejected"
    /\ (last.op = "call" /\ ~last.invoked /\ last.ret \in Promises)
           => promises[last.ret] # "rejected"

\* C15: a direct call of a zero-parameter callable whose first rest
\* argument is an argument list fails fast: the callable is not invoked,
\* the list is not taken for the options, the cache stays as it was and
\* nothing is returned from it.
C15_MalformedCallFailsFast ==
    [][(/\ last'.op = "call"
        /\ FnLength(last'.fn) = 0
        /\ last'.rest # <<>>
        /\ last'.rest[1].t = "ref")
       => (/\ ~last'.invoked
           /\ last'.parsed.options # last'.rest[1]
           /\ last'.ret \notin Results
           /\ cache' = cache)]_vars

SameOutcome(w, d) ==
    /\ w.invoked = d.invoked
    /\ w.threw = d.threw
    /\ w.ret = d.ret
    /\ w.map = d.map

\* C17: from every reachable cache, for every callable, argument list and
\* options, a wrapper call w(a1..an) and the direct call entry(fn,
\* [a1..an], options) of the same strategy agree in hit or miss, return
\* value and resulting cache.
C17_WrapperAsDirectCall ==
    \A fn \in Fns, args \in {<<>>, <<One, Two>>}, outcome \in Outcomes :
        LET list == RestArray(args, cache)
        IN  /\ \A options \in OptionsInputs \cup {Undefined} :
                   SameOutcome(wrap(cache, fn, options, args, outcome),
                               byRef(cache, fn, <<list, options>>, outcome))
            /\ SameOutcome(wrapShallow(cache, fn, args, outcome),
                           shallow(cache, fn, <<list>>, outcome))
            /\ SameOutcome(wrapDeep(cache, fn, args, outcome),
                           deep(cache, fn, <<list>>, outcome))

\* C18 as stated: peek(fn) is the stored result when fn has a record and
\* is empty (undefined) exactly when hasCache(fn) is false; peek and
\* hasCache answer from the cache and leave it as it was.
C18_PeekEmptyIffNoRecord ==
    [][/\ \A fn \in Fns :
              /\ hasCache(cache', fn)
                     => peek(cache', fn) = WeakMapGet(cache', fn).result
              /\ peek(cache', fn) = "undefined" <=> ~hasCache(cache', fn)
       /\ last'.op = "peek"
              => (last'.ret = peek(cache, last'.fn) /\ cache' = cache)
       /\ last'.op = "hasCache"
              => (last'.ret = hasCache(cache, last'.fn) /\ cache' = cache)]_vars

\* C18 amended: peek(fn) is the stored result when fn has a record and
\* undefined when it has none, so a peek that is not undefined tells of a
\* record; a stored result of undefined is peeked as undefined too, and
\* only hasCache tells it from no record.  peek and hasCache answer from
\* the cache and leave it as it was.
C18_PeekStoredOrUndefined ==
    [][/\ \A fn \in Fns :
              /\ hasCache(cache', fn)
                     => peek(cache', fn) = WeakMapGet(cache', fn).result
              /\ ~hasCache(cache', fn) => peek(cache', fn) = "undefined"
              /\ peek(cache', fn) # "undefined" => hasCache(cache', fn)
              /\ hasCache(cache', fn) <=> WeakMapGet(cache', fn) # NoRecord
       /\ last'.op = "peek"
              => (last'.ret = peek(cache, last'.fn) /\ cache' = cache)
       /\ last'.op = "hasCache"
              => (last'.ret = hasCache(cache, last'.fn) /\ cache' = cache)]_vars

\* peek answered undefined for a callable that has a record, next to a
\* callable whose record holds a value.
C18_Witness ==
    /\ last.op = "peek"
    /\ last.ret = "undefined"
    /\ hasCache(cache, last.fn)
    /\ \E g \in Fns : peek(cache, g) = "v1"

\* C19: when a call of fn returns normally with r, hit or miss, fn has a
\* record and peek(fn) is r, also when the body of fn called fn or
\* another callable, clearOne or clearAll before it returned: after a
\* miss the record of fn is the outer call's result, arguments and
\* context.
C19_ReturnedResultIsCached ==
    [][(last'.op = "call" /\ ~last'.threw)
       => (/\ hasCache(cache', last'.fn)
           /\ peek(cache', last'.fn) = last'.ret
           /\ last'.invoked
                  => WeakMapGet(cache', last'.fn)
                         = Record(last'.ret, last'.params, last'.thisValue)
           /\ AtMostOneRecord')]_vars

\* A miss whose body called clearAll() left the record of the call, and
\* nothing else, in the cache.
C19_Witness ==
    /\ last.op = "call"
    /\ last.invoked
    /\ ~last.threw
    /\ last.body.op = "clearAll"
    /\ cache = WeakMapSet(EmptyWeakMap, last.fn,
                          Record(last.ret, last.params, last.thisValue))

\* The entries of callable g in a map.
EntriesOf(map, g) == {e \in map : e.key = g}

\* C20: a call of fn (hit, miss or failure; the body of fn does not call
\* the library) and clearOne(fn) leave the record of every other callable
\* as it was: none created, replaced or removed.
C20_OtherRecordsUntouched ==
    [][last'.op \in {"call", "clearOne"}
       => \A g \in Fns \ {last'.fn} :
              /\ EntriesOf(cache', g) = EntriesOf(cache, g)
              /\ hasCache(cache', g) = hasCache(cache, g)
              /\ peek(cache', g) = peek(cache, g)]_vars

\* A miss replaced the record of one callable next to the record of the
\* other, which holds another result.
C20_Witness ==
    /\ last.op = "call"
    /\ last.invoked
    /\ ~last.threw
    /\ \E g \in Fns \ {last.fn} :
           hasCache(cache, g) /\ peek(cache, g) # last.ret

=============================================================================
